---------------------------- MODULE Spec2Model ----------------------------
(***************************************************************************)
(* A model of go-evsrc: the Server-Sent-Events encoder (ServerConn.Send)   *)
(* and the streaming decoder (ClientConn.Receive, readFieldName) over a    *)
(* bufio.Reader.  Bytes are their integer values, strings and []byte are   *)
(* sequences of bytes.  A []byte additionally carries whether it is nil.   *)
(*                                                                         *)
(* A string of some megabytes (a data line at MaxEventDataSize) is written *)
(* down with its long runs of one byte left out: it is a function from 0   *)
(* and some of its indices, to its length at 0 and to the bytes at the     *)
(* indices, and every index up to the length that is left out holds the    *)
(* byte FillByte.  A string with nothing left out is a sequence.  BLen,    *)
(* BAt, BSub, BCat and BEq are len(s), s[i], s[a:b], append and            *)
(* bytes.Equal on them.                                                    *)
(***************************************************************************)
EXTENDS Integers, Sequences, FiniteSets, TLC

(***************************************************************************)
(* Bytes the code compares against.                                        *)
(***************************************************************************)
LF == 10
COLON == 58
SP == 32
ChE == 101
ChD == 100
ChI == 105
ChR == 114
BOM1 == 239
BOM2 == 187
BOM3 == 191
\* The carriage return bufio.Reader.ReadLine strips before a line feed.
CR == 13

\* The literals "vent", "ata", "d", "etry" passed to readFieldName.
NameVent == <<118, 101, 110, 116>>
NameAta == <<97, 116, 97>>
NameD == <<100>>
NameEtry == <<101, 116, 114, 121>>

\* The literals of the format strings of Send.
StrEvent == <<101, 118, 101, 110, 116, 58, 32>>
StrId == <<105, 100, 58, 32>>
StrRetry == <<114, 101, 116, 114, 121, 58, 32>>
StrData == <<100, 97, 116, 97, 58, 32>>
StrDataNoSpace == <<100, 97, 116, 97, 58>>
StrKeepalive == <<58, 10, 10>>

(***************************************************************************)
(* Bounds of the model.                                                    *)
(***************************************************************************)
\* Longest data payload of the record under test.
MaxDataLen == 3
\* Most calls of Send in one behaviour.
MaxSends == 3
\* Most lines the raw writer puts on the stream in one behaviour.
MaxLines == 4

\* Length of the filler the writer of long data lines writes at once: two
\* of them stay below MaxEventDataSize, three pass it.
FillerLen == 2097151
\* Size of a bufio.Reader's buffer that delivers a long line in pieces
\* (bufio.NewReaderSize(r, 1<<20)).
PieceBufSize == 1048576
\* Size of a bufio.Reader's buffer that holds a whole long line.
BigBufSize == 8388608

\* bufio.NewReader: a buffer of the default size.
DefaultBufSize == 4096

\* const MaxEventDataSize = 1024 * 1024 * 4
MaxEventDataSize == 4194304

(***************************************************************************)
(* Strings and []byte.                                                     *)
(***************************************************************************)
\* The byte at the indices a long string leaves out.
FillByte == 97

\* Nothing of s is left out.
IsPlain(s) == 0 \notin DOMAIN s

MinOf(S) == CHOOSE x \in S : \A y \in S : x <= y

\* The string of n bytes with the bytes f at the indices DOMAIN f.
Sparse(n, f) ==
    IF Cardinality(DOMAIN f) = n THEN f
    ELSE [i \in {0} \cup DOMAIN f |-> IF i = 0 THEN n ELSE f[i]]

\* len(s)
BLen(s) == IF 0 \in DOMAIN s THEN s[0] ELSE Len(s)

\* s[i-1], for i in 1..len(s)
BAt(s, i) == IF i \in DOMAIN s THEN s[i] ELSE FillByte

\* s[a-1:b], empty when a > b
BSub(s, a, b) ==
    IF 0 \notin DOMAIN s THEN SubSeq(s, a, b)
    ELSE IF a > b THEN <<>>
    ELSE Sparse(b - a + 1,
                [i \in {k - a + 1 : k \in {k \in DOMAIN s : k >= a /\ k <= b}} |-> s[i + a - 1]])

\* append(s, t...)
BCat(s, t) ==
    IF 0 \notin DOMAIN s /\ 0 \notin DOMAIN t THEN s \o t
    ELSE LET n == BLen(s)
         IN  Sparse(n + BLen(t),
                    [i \in (DOMAIN s \ {0}) \cup {n + k : k \in DOMAIN t \ {0}} |->
                        IF i <= n THEN s[i] ELSE t[i - n]])

\* bytes.Equal(s, t)
BEq(s, t) ==
    IF 0 \notin DOMAIN s /\ 0 \notin DOMAIN t THEN s = t
    ELSE /\ BLen(s) = BLen(t)
         /\ \A i \in (DOMAIN s \cup DOMAIN t) \ {0} : BAt(s, i) = BAt(t, i)

\* n bytes FillByte.
Run(n) == Sparse(n, <<>>)

(***************************************************************************)
(* Event and its zero value.                                               *)
(***************************************************************************)
MkEvent(ev, data, dataNil, id, retry) ==
    [Event |-> ev, Data |-> data, DataNil |-> dataNil, ID |-> id, Retry |-> retry]

ZeroEvent == MkEvent(<<>>, <<>>, TRUE, <<>>, [neg |-> FALSE, mag |-> <<0>>])

IsZero(e) ==
    e.Event = <<>> /\ e.DataNil /\ e.ID = <<>> /\ e.Retry = [neg |-> FALSE, mag |-> <<0>>]

\* Event.Eq of the tests: Data by content (bytes.Equal: nil equals empty).
Eq(e1, e2) ==
    /\ BEq(e1.Event, e2.Event)
    /\ BEq(e1.Data, e2.Data)
    /\ BEq(e1.ID, e2.ID)
    /\ e1.Retry = e2.Retry

(***************************************************************************)
(* Helpers on byte sequences.                                              *)
(***************************************************************************)
\* bytes.IndexByte(s, b), 1-based from position from; 0 when absent.
IndexByteFrom(s, b, from) ==
    IF IsPlain(s)
    THEN IF \E i \in from..Len(s) : s[i] = b
         THEN CHOOSE i \in from..Len(s) : s[i] = b /\ \A k \in from..(i - 1) : s[k] # b
         ELSE 0
    ELSE LET kept == {i \in DOMAIN s : i >= from /\ s[i] = b}
             leftOut == IF b # FillByte THEN {}
                        ELSE {i \in {from} \cup {k + 1 : k \in {k \in DOMAIN s : k >= from}} :
                                  i <= BLen(s) /\ i \notin DOMAIN s}
             hits == kept \cup leftOut
         IN  IF hits = {} THEN 0 ELSE MinOf(hits)

Drop(s, n) == BSub(s, n + 1, BLen(s))

RECURSIVE Flatten(_)
Flatten(ss) == IF ss = <<>> THEN <<>> ELSE Head(ss) \o Flatten(Tail(ss))

\* strings.TrimSuffix(s, "\n")
TrimSuffixLF(s) ==
    IF BLen(s) > 0 /\ BAt(s, BLen(s)) = LF THEN BSub(s, 1, BLen(s) - 1) ELSE s

(***************************************************************************)
(* Go's int and int64, 64 bits wide (as on amd64 and arm64): a value is    *)
(* [neg, mag], its sign and the decimal digits of its magnitude, most      *)
(* significant first and without leading zeros; zero is [FALSE, <<0>>].    *)
(* Then fmt's %d and strconv.ParseInt(s, 10, 0).                           *)
(***************************************************************************)
RECURSIVE Digits(_)
Digits(n) == IF n < 10 THEN <<n>> ELSE Append(Digits(n \div 10), n % 10)

\* The int with the value of the integer n of the model.
IntOf(n) == [neg |-> n < 0, mag |-> Digits(IF n < 0 THEN 0 - n ELSE n)]

IntZero == IntOf(0)

\* 9223372036854775807 and the magnitude of -9223372036854775808.
MaxInt64Mag == <<9, 2, 2, 3, 3, 7, 2, 0, 3, 6, 8, 5, 4, 7, 7, 5, 8, 0, 7>>
MinInt64Mag == <<9, 2, 2, 3, 3, 7, 2, 0, 3, 6, 8, 5, 4, 7, 7, 5, 8, 0, 8>>

\* a <= b for magnitudes.
DigitsLE(a, b) ==
    \/ Len(a) < Len(b)
    \/ /\ Len(a) = Len(b)
       /\ \/ a = b
          \/ \E i \in 1..Len(a) : a[i] < b[i] /\ \A k \in 1..(i - 1) : a[k] = b[k]

FormatUint(mag) == [i \in 1..Len(mag) |-> 48 + mag[i]]

FormatInt(v) == IF v.neg THEN <<45>> \o FormatUint(v.mag) ELSE FormatUint(v.mag)

IsDigit(b) == b >= 48 /\ b <= 57

RECURSIVE StripZeros(_)
StripZeros(ds) == IF Len(ds) > 1 /\ ds[1] = 0 THEN StripZeros(Tail(ds)) ELSE ds

\* 18446744073709551615
MaxUint64Mag == <<1, 8, 4, 4, 6, 7, 4, 4, 0, 7, 3, 7, 0, 9, 5, 5, 1, 6, 1, 5>>

\* The loop of strconv.ParseUint(s, 10, 64) from byte i on, with the
\* magnitude mag of the digits before it: a byte that is no digit is a
\* syntax error and gives 0, a digit that takes the value past 64 bits is
\* a range error and gives the largest uint64; the first of them ends
\* the loop.
RECURSIVE ParseUintFrom(_, _, _)
ParseUintFrom(s, i, mag) ==
    IF i > BLen(s) THEN [err |-> "nil", mag |-> mag]
    ELSE IF ~IsDigit(BAt(s, i)) THEN [err |-> "syntax", mag |-> <<0>>]
    ELSE LET n1 == StripZeros(Append(mag, BAt(s, i) - 48))
         IN  IF ~DigitsLE(n1, MaxUint64Mag) THEN [err |-> "range", mag |-> MaxUint64Mag]
             ELSE ParseUintFrom(s, i + 1, n1)

\* strconv.ParseUint(s, 10, 64): the empty string is a syntax error.
ParseUint(s) ==
    IF BLen(s) = 0 THEN [err |-> "syntax", mag |-> <<0>>]
    ELSE ParseUintFrom(s, 1, <<0>>)

\* strconv.ParseInt(s, 10, 0): an optional sign, then ParseUint.  A syntax
\* error gives 0; a range error of ParseUint, and a magnitude outside the
\* int64, give the nearest int64 with a range error.  ok is err == nil.
ParseInt(s) ==
    LET neg == BLen(s) > 0 /\ BAt(s, 1) = 45
        signed == BLen(s) > 0 /\ (BAt(s, 1) = 45 \/ BAt(s, 1) = 43)
        un == ParseUint(IF signed THEN BSub(s, 2, BLen(s)) ELSE s)
    IN  IF BLen(s) = 0 \/ un.err = "syntax"
        THEN [ok |-> FALSE, err |-> "syntax", val |-> IntZero]
        ELSE IF ~neg /\ ~DigitsLE(un.mag, MaxInt64Mag)
        THEN [ok |-> FALSE, err |-> "range", val |-> [neg |-> FALSE, mag |-> MaxInt64Mag]]
        ELSE IF neg /\ ~DigitsLE(un.mag, MinInt64Mag)
        THEN [ok |-> FALSE, err |-> "range", val |-> [neg |-> TRUE, mag |-> MinInt64Mag]]
        ELSE [ok |-> TRUE, err |-> "nil",
              val |-> [neg |-> neg /\ un.mag # <<0>>, mag |-> un.mag]]

(***************************************************************************)
(* The bufio.Reader over the stream s.  end is "open" while the source may *)
(* still deliver bytes, else the error the source ends with.  pos is the   *)
(* index of the next byte to read.  A read that needs more bytes than an   *)
(* open stream holds blocks: st = "block".                                 *)
(***************************************************************************)
ReadByte(s, end, pos) ==
    IF pos <= BLen(s) THEN [st |-> "ok", b |-> BAt(s, pos), pos |-> pos + 1]
    ELSE IF end = "open" THEN [st |-> "block", b |-> 0, pos |-> pos]
    ELSE [st |-> "err", b |-> 0, pos |-> pos]

UnreadByteNoop(pos) == pos

\* UnreadByte after a read that consumed at least one byte.
UnreadByte(pos) == pos - 1

\* ReadString('\n') on a reader whose buffer holds size bytes: everything
\* up to and including the next line feed; at the end of the source the
\* rest is consumed and the error returned.  While the line feed is not on
\* an open stream the call waits, having taken every full buffer of the
\* line read so far out of the reader.
ReadString(s, end, pos, size) ==
    LET j == IndexByteFrom(s, LF, pos)
        avail == BLen(s) - pos + 1
    IN  IF j > 0 THEN [st |-> "ok", str |-> BSub(s, pos, j), pos |-> j + 1]
        ELSE IF end = "open"
        THEN [st |-> "block", str |-> <<>>, pos |-> pos + size * (avail \div size)]
        ELSE [st |-> "err", str |-> BSub(s, pos, BLen(s)), pos |-> BLen(s) + 1]

\* ReadLine on a reader whose buffer holds size bytes: the line without its
\* end ("\n" or "\r\n"); a line that does not
\* fit the buffer comes in pieces with isPrefix set, and a full buffer ending
\* in "\r" gives that byte back for the next call.  At the end of the source
\* the rest is returned without error if there is any.
ReadLine(s, end, pos, size) ==
    LET j == IndexByteFrom(s, LF, pos)
        avail == BLen(s) - pos + 1
    IN  IF j > 0 /\ j - pos < size
        THEN LET drop == IF j - pos >= 1 /\ BAt(s, j - 1) = CR THEN 2 ELSE 1
             IN  [st |-> "ok", line |-> BSub(s, pos, j - drop),
                  isPrefix |-> FALSE, pos |-> j + 1]
        ELSE IF avail >= size
        THEN IF BAt(s, pos + size - 1) = CR
             THEN [st |-> "ok", line |-> BSub(s, pos, pos + size - 2),
                   isPrefix |-> TRUE, pos |-> pos + size - 1]
             ELSE [st |-> "ok", line |-> BSub(s, pos, pos + size - 1),
                   isPrefix |-> TRUE, pos |-> pos + size]
        ELSE IF end = "open"
        THEN [st |-> "block", line |-> <<>>, isPrefix |-> FALSE, pos |-> pos]
        ELSE IF avail > 0
        THEN [st |-> "ok", line |-> BSub(s, pos, BLen(s)),
              isPrefix |-> FALSE, pos |-> BLen(s) + 1]
        ELSE [st |-> "err", line |-> <<>>, isPrefix |-> FALSE, pos |-> pos]

(***************************************************************************)
(* readFieldName(dataLeft, r): ok when the next bytes are dataLeft and a   *)
(* colon; one space after the colon is consumed if present.                *)
(***************************************************************************)
RECURSIVE readFieldNameFrom(_, _, _, _, _)
readFieldNameFrom(dataLeft, i, s, end, pos) ==
    IF i <= Len(dataLeft)
    THEN LET r == ReadByte(s, end, pos)
         IN  IF r.st # "ok" THEN [st |-> r.st, ok |-> FALSE, pos |-> r.pos]
             ELSE IF r.b # dataLeft[i] THEN [st |-> "ok", ok |-> FALSE, pos |-> r.pos]
             ELSE IF r.b = LF THEN [st |-> "ok", ok |-> FALSE, pos |-> UnreadByte(r.pos)]
             ELSE readFieldNameFrom(dataLeft, i + 1, s, end, r.pos)
    ELSE LET c == ReadByte(s, end, pos)
         IN  IF c.st # "ok" THEN [st |-> c.st, ok |-> FALSE, pos |-> c.pos]
             ELSE IF c.b # COLON THEN [st |-> "ok", ok |-> FALSE, pos |-> UnreadByte(c.pos)]
             ELSE LET sp == ReadByte(s, end, c.pos)
                  IN  IF sp.st # "ok" THEN [st |-> sp.st, ok |-> FALSE, pos |-> sp.pos]
                      ELSE IF sp.b # SP THEN [st |-> "ok", ok |-> TRUE, pos |-> UnreadByte(sp.pos)]
                      ELSE [st |-> "ok", ok |-> TRUE, pos |-> sp.pos]

readFieldName(dataLeft, s, end, pos) == readFieldNameFrom(dataLeft, 1, s, end, pos)

\* The case 0xEF of Receive, after its first byte: ok when the next bytes
\* are BB BF, and then the loop reads on without the line eater.
readBOMFallsThrough(s, end, pos) ==
    LET b2 == ReadByte(s, end, pos)
        b3 == ReadByte(s, end, b2.pos)
    IN  IF b2.st # "ok" THEN [st |-> b2.st, ok |-> FALSE, pos |-> b2.pos]
        ELSE IF b2.b # BOM2 THEN [st |-> "ok", ok |-> FALSE, pos |-> b2.pos]
        ELSE IF b3.st # "ok" THEN [st |-> b3.st, ok |-> FALSE, pos |-> b3.pos]
        ELSE [st |-> "ok", ok |-> FALSE, pos |-> b3.pos]

readBOM(s, end, pos) ==
    LET b2 == ReadByte(s, end, pos)
        b3 == ReadByte(s, end, b2.pos)
    IN  IF b2.st # "ok" THEN [st |-> b2.st, ok |-> FALSE, pos |-> b2.pos]
        ELSE IF b2.b # BOM2 THEN [st |-> "ok", ok |-> FALSE, pos |-> b2.pos]
        ELSE IF b3.st # "ok" THEN [st |-> b3.st, ok |-> FALSE, pos |-> b3.pos]
        ELSE IF b3.b # BOM3 THEN [st |-> "ok", ok |-> FALSE, pos |-> b3.pos]
        ELSE [st |-> "ok", ok |-> TRUE, pos |-> b3.pos]

(***************************************************************************)
(* ClientConn.Receive.  A result is [st, ev, err, pos, lastID]: st is      *)
(* "ret" when the call returns (err is "nil", the source's error, or       *)
(* "TooBig" for errEventDataTooBig) and "block" when it waits for bytes,   *)
(* having read as far as the stream goes.  size is the size of the         *)
(* reader's buffer.                                                        *)
(***************************************************************************)
RetEOF(ev, err, pos, lastID) ==
    [st |-> "ret", ev |-> ev, err |-> IF err = "nil" THEN "nil" ELSE "EOF", pos |-> pos,
     lastID |-> lastID]

Ret(ev, err, pos, lastID) ==
    [st |-> "ret", ev |-> ev, err |-> err, pos |-> pos, lastID |-> lastID]

\* The call waits in a read of c.br, with the event and LastEventID it has
\* so far and the reader at pos.
Blocked(ev, pos, lastID) ==
    [st |-> "block", ev |-> ev, err |-> "nil", pos |-> pos, lastID |-> lastID]

\* append(event.Data, data...): a nil slice stays nil when nothing is added.
AppendData(ev, data) ==
    [ev EXCEPT !.Data = BCat(@, data), !.DataNil = @ /\ BLen(data) = 0]

\* The size test after each append of a piece of a data line.
DataTooBigPieceOnly(data, piece) == BLen(piece) >= MaxEventDataSize

DataTooBig(data, piece) == BLen(data) + BLen(piece) >= MaxEventDataSize

\* The data case's loop over ReadLine: st is "ok" when the whole line was
\* appended, "ret" when Receive returns from inside the loop.
RECURSIVE ReadDataLine(_, _, _, _, _)
ReadDataLine(s, end, pos, ev, size) ==
    LET r == ReadLine(s, end, pos, size)
        ev2 == AppendData(ev, r.line)
    IN  IF r.st = "block" THEN [st |-> "block", ev |-> ev, err |-> "nil", pos |-> pos]
        ELSE IF r.st = "err" THEN [st |-> "ret", ev |-> ev, err |-> end, pos |-> r.pos]
        ELSE IF DataTooBig(ev2.Data, r.line)
        THEN [st |-> "ret", ev |-> ev2, err |-> "TooBig", pos |-> r.pos]
        ELSE IF r.isPrefix THEN ReadDataLine(s, end, r.pos, ev2, size)
        ELSE [st |-> "ok", ev |-> ev2, err |-> "nil", pos |-> r.pos]

\* The test at a blank line for a group that dispatches nothing.
IsKeepaliveGroupNilOnly(ev) == ev.DataNil

IsKeepaliveGroupNoFields(ev) == BLen(ev.Data) = 0 /\ ev.Event = <<>> /\ ev.ID = <<>>

IsKeepaliveGroup(ev) == BLen(ev.Data) = 0

\* The id case's assignment to c.LastEventID.
SetLastEventIDIfData(lastID, ev, id) == IF BLen(ev.Data) = 0 THEN lastID ELSE id

SetLastEventID(lastID, ev, id) == id

\* The retry case after strconv.ParseInt: the value is assigned when the
\* parse succeeded.
SetRetryAlways(ev, retry64) == [ev EXCEPT !.Retry = retry64.val]

SetRetry(ev, retry64) == IF retry64.ok THEN [ev EXCEPT !.Retry = retry64.val] ELSE ev

\* The dispatch at a blank line: one trailing line feed is stripped (Data
\* is not empty there).
StripOneLF(ev) ==
    IF BLen(ev.Data) > 0 /\ BAt(ev.Data, BLen(ev.Data)) = LF
    THEN [ev EXCEPT !.Data = BSub(@, 1, BLen(@) - 1)]
    ELSE ev

RECURSIVE ReceiveLoop(_, _, _, _, _, _)
RECURSIVE ConsumeLine(_, _, _, _, _, _)

\* "Consume data up to and including the next newline", then the next
\* iteration of the loop.
ConsumeLine(s, end, pos, ev, lastID, size) ==
    LET r == ReadLine(s, end, pos, size)
    IN  IF r.st = "block" THEN Blocked(ev, r.pos, lastID)
        ELSE IF r.st = "err" THEN Ret(ev, end, r.pos, lastID)
        ELSE IF r.isPrefix THEN ConsumeLine(s, end, r.pos, ev, lastID, size)
        ELSE ReceiveLoop(s, end, r.pos, ev, lastID, size)

\* One iteration of the for loop of Receive, from the ReadByte on.
ReceiveLoop(s, end, pos, ev, lastID, size) ==
    LET rb == ReadByte(s, end, pos)
    IN  IF rb.st = "block" THEN Blocked(ev, rb.pos, lastID)
        ELSE IF rb.st = "err" THEN Ret(ev, end, rb.pos, lastID)
        ELSE IF rb.b = LF
        THEN IF IsKeepaliveGroup(ev)
             THEN ReceiveLoop(s, end, rb.pos, ev, lastID, size)
             ELSE Ret(StripOneLF(ev), "nil", rb.pos, lastID)
        ELSE IF rb.b = ChE
        THEN LET fn == readFieldName(NameVent, s, end, rb.pos)
                 rs == ReadString(s, end, fn.pos, size)
             IN  IF fn.st = "block" THEN Blocked(ev, fn.pos, lastID)
                 ELSE IF fn.st = "err" THEN Ret(ev, end, fn.pos, lastID)
                 ELSE IF ~fn.ok THEN ConsumeLine(s, end, fn.pos, ev, lastID, size)
                 ELSE IF rs.st = "block" THEN Blocked(ev, rs.pos, lastID)
                 ELSE IF rs.st = "err" THEN Ret(ev, end, rs.pos, lastID)
                 ELSE ConsumeLine(s, end, UnreadByte(rs.pos),
                                  [ev EXCEPT !.Event = TrimSuffixLF(rs.str)], lastID, size)
        ELSE IF rb.b = ChD
        THEN LET fn == readFieldName(NameAta, s, end, rb.pos)
                 rd == ReadDataLine(s, end, fn.pos, ev, size)
             IN  IF fn.st = "block" THEN Blocked(ev, fn.pos, lastID)
                 ELSE IF fn.st = "err" THEN Ret(ev, end, fn.pos, lastID)
                 ELSE IF ~fn.ok THEN ConsumeLine(s, end, fn.pos, ev, lastID, size)
                 ELSE IF rd.st = "block" THEN Blocked(rd.ev, rd.pos, lastID)
                 ELSE IF rd.st = "ret" THEN Ret(rd.ev, rd.err, rd.pos, lastID)
                 ELSE ConsumeLine(s, end, UnreadByte(rd.pos),
                                  [rd.ev EXCEPT !.Data = BCat(@, <<LF>>), !.DataNil = FALSE],
                                  lastID, size)
        ELSE IF rb.b = ChI
        THEN LET fn == readFieldName(NameD, s, end, rb.pos)
                 rs == ReadString(s, end, fn.pos, size)
                 id == TrimSuffixLF(rs.str)
             IN  IF fn.st = "block" THEN Blocked(ev, fn.pos, lastID)
                 ELSE IF fn.st = "err" THEN Ret(ev, end, fn.pos, lastID)
                 ELSE IF ~fn.ok THEN ConsumeLine(s, end, fn.pos, ev, lastID, size)
                 ELSE IF rs.st = "block" THEN Blocked(ev, rs.pos, lastID)
                 ELSE IF rs.st = "err" THEN Ret(ev, end, rs.pos, lastID)
                 ELSE ConsumeLine(s, end, UnreadByte(rs.pos), [ev EXCEPT !.ID = id],
                                  SetLastEventID(lastID, ev, id), size)
        ELSE IF rb.b = ChR
        THEN LET fn == readFieldName(NameEtry, s, end, rb.pos)
                 rs == ReadString(s, end, fn.pos, size)
                 retry64 == ParseInt(TrimSuffixLF(rs.str))
             IN  IF fn.st = "block" THEN Blocked(ev, fn.pos, lastID)
                 ELSE IF fn.st = "err" THEN Ret(ev, end, fn.pos, lastID)
                 ELSE IF ~fn.ok THEN ConsumeLine(s, end, fn.pos, ev, lastID, size)
                 ELSE IF rs.st = "block" THEN Blocked(ev, rs.pos, lastID)
                 ELSE IF rs.st = "err" THEN Ret(ev, end, rs.pos, lastID)
                 ELSE ConsumeLine(s, end, UnreadByte(rs.pos), SetRetry(ev, retry64),
                                  lastID, size)
        ELSE IF rb.b = BOM1
        THEN LET bom == readBOM(s, end, rb.pos)
             IN  IF bom.st = "block" THEN Blocked(ev, bom.pos, lastID)
                 ELSE IF bom.st = "err" THEN Ret(ev, end, bom.pos, lastID)
                 ELSE IF ~bom.ok THEN ConsumeLine(s, end, bom.pos, ev, lastID, size)
                 ELSE ReceiveLoop(s, end, bom.pos, ev, lastID, size)
        ELSE ConsumeLine(s, end, rb.pos, ev, lastID, size)

ReceiveFromKeepingBuf(s, end, pos, buf, lastID, size) ==
    ReceiveLoop(s, end, pos, [ZeroEvent EXCEPT !.Data = buf.b, !.DataNil = buf.nil], lastID, size)

\* Receive(buf) from position pos: a non-nil buf is reused, cut to length 0.
\* buf is [b, nil]: the bytes of the slice and whether it is nil.
ReceiveFrom(s, end, pos, buf, lastID, size) ==
    LET event == IF buf.nil THEN ZeroEvent
                 ELSE [ZeroEvent EXCEPT !.DataNil = FALSE]
    IN  ReceiveLoop(s, end, pos, event, lastID, size)

(***************************************************************************)
(* The loop of testClientConnConsumption over a stream that has ended:     *)
(* client.Receive(event.Data) until it returns an error, where event is    *)
(* the variable declared before the loop, which is never assigned (the     *)
(* loop's := declares its own), so that every call is Receive(nil).  The   *)
(* result holds the events returned without error, the error that ended    *)
(* the loop and the LastEventID then.                                      *)
(***************************************************************************)
RECURSIVE ConsumeFrom(_, _, _, _, _, _)
ConsumeFrom(s, end, pos, lastID, got, size) ==
    LET r == ReceiveFrom(s, end, pos, [b |-> <<>>, nil |-> TRUE], lastID, size)
    IN  IF r.err # "nil"
        THEN [events |-> got, err |-> r.err, lastID |-> r.lastID]
        ELSE ConsumeFrom(s, end, r.pos, r.lastID, Append(got, r.ev), size)

testClientConnConsumption(s) == ConsumeFrom(s, "EOF", 1, <<>>, <<>>, DefaultBufSize)

(***************************************************************************)
(* ServerConn.Send: the writes it makes, one per Fprintf, in order.        *)
(***************************************************************************)
\* The for loop over data: one thisLine per iteration.
RECURSIVE DataLines(_)
DataLines(data) ==
    IF Len(data) = 0 THEN <<>>
    ELSE LET nextNewline == IndexByteFrom(data, LF, 1)
         IN  IF nextNewline = 0 THEN <<data>>
             ELSE <<SubSeq(data, 1, nextNewline - 1)>> \o DataLines(Drop(data, nextNewline))

RECURSIVE DataWrites(_)
DataWrites(lines) ==
    IF lines = <<>> THEN <<>>
    ELSE <<StrData \o Head(lines) \o <<LF>> >> \o DataWrites(Tail(lines))

SendWrites(e) ==
    IF IsZero(e) THEN <<StrKeepalive>>
    ELSE LET endsInNewline == Len(e.Data) > 0 /\ e.Data[Len(e.Data)] = LF
             data == IF endsInNewline THEN SubSeq(e.Data, 1, Len(e.Data) - 1) ELSE e.Data
         IN  (IF e.Event # <<>> THEN <<StrEvent \o e.Event \o <<LF>> >> ELSE <<>>)
             \o (IF e.ID # <<>> THEN <<StrId \o e.ID \o <<LF>> >> ELSE <<>>)
             \o (IF e.Retry # IntZero THEN <<StrRetry \o FormatInt(e.Retry) \o <<LF>> >> ELSE <<>>)
             \o DataWrites(DataLines(data))
             \o (IF endsInNewline THEN <<StrDataNoSpace \o <<LF>> >> ELSE <<>>)
             \o << <<LF>> >>

\* The bytes of a Send whose writes all succeed.
SendBytes(e) == Flatten(SendWrites(e))

\* ServerConn.flush: a Flush of the writer when it is an http.Flusher.
flush(isFlusher, n) == IF isFlusher THEN n + 1 ELSE n

\* One operation on the sink: a Write of b of which the sink took n bytes,
\* failing or not, or a Flush.
WriteOp(b, n, failed) == [op |-> "Write", b |-> b, n |-> n, failed |-> failed]
FlushOp == [op |-> "Flush", b |-> <<>>, n |-> 0, failed |-> FALSE]

GoodWrites(ws) == [i \in 1..Len(ws) |-> WriteOp(ws[i], Len(ws[i]), FALSE)]

\* The operations of the deferred s.flush().
FlushOps(isFlusher) == IF flush(isFlusher, 0) = 1 THEN <<FlushOp>> ELSE <<>>

SendOpsFlushAtEnd(e, ok, part, isFlusher) ==
    IF ok >= Len(SendWrites(e))
    THEN GoodWrites(SendWrites(e)) \o FlushOps(isFlusher)
    ELSE GoodWrites(SubSeq(SendWrites(e), 1, ok))
             \o <<WriteOp(SendWrites(e)[ok + 1], part, TRUE)>>

SendOpsKeepWriting(e, ok, part, isFlusher) ==
    IF ok >= Len(SendWrites(e))
    THEN GoodWrites(SendWrites(e)) \o FlushOps(isFlusher)
    ELSE GoodWrites(SubSeq(SendWrites(e), 1, ok))
             \o <<WriteOp(SendWrites(e)[ok + 1], part, TRUE)>>
             \o GoodWrites(SubSeq(SendWrites(e), ok + 2, Len(SendWrites(e))))
             \o FlushOps(isFlusher)

\* The operations Send(e) makes on a sink that takes the first ok writes and
\* fails the next one after part of its bytes: the writes up to the failed
\* one, then the deferred flush.
SendOps(e, ok, part, isFlusher) ==
    IF ok >= Len(SendWrites(e))
    THEN GoodWrites(SendWrites(e)) \o FlushOps(isFlusher)
    ELSE GoodWrites(SubSeq(SendWrites(e), 1, ok))
             \o <<WriteOp(SendWrites(e)[ok + 1], part, TRUE)>>
             \o FlushOps(isFlusher)

\* What Send returns: the error of the failed write, if any.
SendErr(ops) == IF \E i \in 1..Len(ops) : ops[i].failed THEN "err" ELSE "nil"

\* The bytes a sequence of operations put on the sink.
RECURSIVE OpsBytes(_)
OpsBytes(ops) ==
    IF ops = <<>> THEN <<>>
    ELSE SubSeq(Head(ops).b, 1, Head(ops).n) \o OpsBytes(Tail(ops))

RECURSIVE CountFlushes(_)
CountFlushes(ops) ==
    IF ops = <<>> THEN 0
    ELSE (IF Head(ops).op = "Flush" THEN 1 ELSE 0) + CountFlushes(Tail(ops))

(***************************************************************************)
(* State.                                                                  *)
(***************************************************************************)
VARIABLES
    rec,          \* the record the server sends (the input under test)
    flusher,      \* whether the ResponseWriter is an http.Flusher
    wire,         \* the bytes written to the stream so far
    srcEnd,       \* "open", or the error the client's source ends with
    sinkBroken,   \* a write to the ResponseWriter has failed
    sends,        \* calls of Send so far
    sendRet,      \* what the last Send returned: "none", "nil", "err"
    flushes,      \* calls of Flush so far
    sent,         \* the events of the Sends that returned nil, in order
    writes,       \* writes of the raw writer so far
    rpos,         \* the bufio.Reader's position in wire: Receive has read the bytes before it
    LastEventID,  \* ClientConn.LastEventID
    ret,          \* what the last Receive returned: [ev, err]
    received,     \* the events Receive returned without error, in order
    call,         \* the client's call of Receive that has not returned, if any
    brSize,       \* the buffer size of the bufio.Reader given to NewClientConn
    lastOps,      \* the operations the last Send made on the sink, in order
    lineSet       \* the lines the raw writer writes

vars == <<rec, flusher, wire, srcEnd, sinkBroken, sends, sendRet, flushes, sent,
          writes, rpos, LastEventID, ret, received, call, brSize, lastOps,
          lineSet>>

envVars == <<rec, flusher, brSize, lineSet>>
serverVars == <<sinkBroken, sends, sendRet, flushes, sent, lastOps>>
clientVars == <<rpos, LastEventID, ret, received, call>>

(***************************************************************************)
(* Inputs.                                                                 *)
(***************************************************************************)
SeqsUpTo(S, n) == UNION {[1..k -> S] : k \in 0..n}

\* Line feed, carriage return and a letter.
PayloadBytes == {10, 13, 97}

Payloads == SeqsUpTo(PayloadBytes, MaxDataLen)

\* Event, ID and Retry of the records under test: each alone, and all at
\* once with leading spaces and a negative retry.
Headers ==
    { [ev |-> <<>>, id |-> <<>>, retry |-> IntOf(0)],
      [ev |-> <<98>>, id |-> <<>>, retry |-> IntOf(0)],
      [ev |-> <<>>, id |-> <<52>>, retry |-> IntOf(0)],
      [ev |-> <<>>, id |-> <<>>, retry |-> IntOf(1000)],
      [ev |-> <<32, 98>>, id |-> <<32, 52>>, retry |-> IntOf(0 - 12)] }

Records ==
    {MkEvent(h.ev, d, FALSE, h.id, h.retry) : h \in Headers, d \in Payloads}
    \cup {MkEvent(h.ev, <<>>, TRUE, h.id, h.retry) : h \in Headers}

NilBuf == [b |-> <<>>, nil |-> TRUE]

\* No call of Receive is in progress.
NoCall == [active |-> FALSE, pos |-> 0, buf |-> NilBuf, lastID |-> <<>>]

(***************************************************************************)
(* Initial state: NewServerConn and NewClientConn on a fresh stream.       *)
(***************************************************************************)
InitConns ==
    /\ wire = <<>>
    /\ srcEnd = "open"
    /\ sinkBroken = FALSE
    /\ sends = 0
    /\ sendRet = "none"
    /\ flushes = 0
    /\ lastOps = <<>>
    /\ sent = <<>>
    /\ writes = 0
    /\ rpos = 1
    /\ LastEventID = <<>>
    /\ ret = [ev |-> ZeroEvent, err |-> "none"]
    /\ received = <<>>
    /\ call = NoCall

Init ==
    /\ rec \in Records
    /\ flusher = TRUE
    /\ brSize = DefaultBufSize
    /\ lineSet = {}
    /\ InitConns

(***************************************************************************)
(* Actions.                                                                *)
(***************************************************************************)
\* Send(e) on a ResponseWriter that takes ok of its writes and fails the
\* next one after part of its bytes (all succeed when ok = Len(SendWrites(e))).
\* The caller does not call Send again on a connection whose Send has
\* failed.
Send(e, ok, part) ==
    /\ sends < MaxSends
    /\ srcEnd = "open"
    /\ ~sinkBroken
    /\ \E ops \in {SendOps(e, ok, part, flusher)} :
           /\ lastOps' = ops
           /\ wire' = wire \o OpsBytes(ops)
           /\ sendRet' = SendErr(ops)
           /\ sinkBroken' = (SendErr(ops) = "err")
           /\ sent' = IF SendErr(ops) = "nil" THEN Append(sent, e) ELSE sent
           /\ flushes' = flushes + CountFlushes(ops)
    /\ sends' = sends + 1
    /\ UNCHANGED <<envVars, srcEnd, writes>>
    /\ UNCHANGED clientVars

\* The handler returns: the client's source ends with io.EOF.
CloseStream ==
    /\ srcEnd = "open"
    /\ srcEnd' = "EOF"
    /\ UNCHANGED <<envVars, wire, writes>>
    /\ UNCHANGED serverVars
    /\ UNCHANGED clientVars

\* The call c of Receive, taken from its start, reads as far as the stream
\* goes (its reads depend on the bytes of the stream alone): it returns, or
\* it waits in a read of c.br, with the bytes before rpos consumed and
\* c.LastEventID set by the id lines among them.
RunCall(c) ==
    \E r \in {ReceiveFrom(wire, srcEnd, c.pos, c.buf, c.lastID, brSize)} :
        /\ call.active => (r.st = "ret" \/ r.pos # rpos)
        /\ rpos' = r.pos
        /\ LastEventID' = r.lastID
        /\ call' = IF r.st = "ret" THEN NoCall ELSE c
        /\ ret' = IF r.st = "ret" THEN [ev |-> r.ev, err |-> r.err] ELSE ret
        /\ received' = IF r.st = "ret" /\ r.err = "nil" THEN Append(received, r.ev)
                       ELSE received
        /\ UNCHANGED <<envVars, wire, srcEnd, writes>>
        /\ UNCHANGED serverVars

\* The client calls Receive(buf).
Receive(buf) ==
    /\ ~call.active
    /\ RunCall([active |-> TRUE, pos |-> rpos, buf |-> buf, lastID |-> LastEventID])

\* The call that waits reads on, now that the stream holds more bytes or
\* has ended.
ReceiveResume ==
    /\ call.active
    /\ RunCall(call)

\* The loop of the tests: event, err = conn.Receive(event.Data).
ReceiveReusing == Receive([b |-> ret.ev.Data, nil |-> ret.ev.DataNil])

\* Sends on a ResponseWriter whose writes succeed.
SendRecord == Send(rec, Len(SendWrites(rec)), 0)

SendKeepalive == Send(ZeroEvent, Len(SendWrites(ZeroEvent)), 0)

Next ==
    \/ SendRecord
    \/ SendKeepalive
    \/ CloseStream
    \/ ReceiveReusing
    \/ ReceiveResume

Spec == Init /\ [][Next]_vars

(***************************************************************************)
(* The encoder on a ResponseWriter whose writes may fail, and that is an   *)
(* http.Flusher or not.                                                    *)
(***************************************************************************)
\* The records sent to a failing sink: the headers, with payloads of line
\* feeds and a letter.
SendRecords ==
    {r \in Records : \A i \in 1..Len(r.Data) : r.Data[i] \in {LF, 97}}

InitSend ==
    /\ rec \in SendRecords
    /\ flusher \in BOOLEAN
    /\ brSize = DefaultBufSize
    /\ lineSet = {}
    /\ InitConns

\* Send(e) on a sink that fails one of the writes, after taking none or some
\* of that write's bytes.
SendFailing(e) ==
    \E ok \in 0..(Len(SendWrites(e)) - 1) :
        \E part \in 0..(Len(SendWrites(e)[ok + 1]) - 1) : Send(e, ok, part)

SendRecordFailing == SendFailing(rec)

SendKeepaliveFailing == SendFailing(ZeroEvent)

NextSend ==
    \/ SendRecord
    \/ SendKeepalive
    \/ SendRecordFailing
    \/ SendKeepaliveFailing

SpecSend == InitSend /\ [][NextSend]_vars

(***************************************************************************)
(* The decoder on a stream written line by line, as the tests of the       *)
(* client write it (a bytes.Reader, an io.Pipe).                           *)
(***************************************************************************)
\* The lines of every stream: "\n", "data:1\n", "id:z\n".
RawBase ==
    { <<10>>,
      <<100, 97, 116, 97, 58, 49, 10>>,
      <<105, 100, 58, 122, 10>> }

\* A stream has one more kind of line: ":\n", "data:\n", "event:a\n", or
\* the start of a line, "data:2", that a later write or the end of the
\* stream completes.
RawExtra ==
    { <<58, 10>>,
      <<100, 97, 116, 97, 58, 10>>,
      <<101, 118, 101, 110, 116, 58, 97, 10>>,
      <<100, 97, 116, 97, 58, 50>> }

RawLines == {RawBase \cup {l} : l \in RawExtra}

InitRaw ==
    /\ rec = ZeroEvent
    /\ flusher = TRUE
    /\ brSize = DefaultBufSize
    /\ lineSet \in RawLines
    /\ InitConns

\* pw.Write(line)
WriteLine ==
    /\ writes < MaxLines
    /\ srcEnd = "open"
    /\ \E l \in lineSet : wire' = BCat(wire, l)
    /\ writes' = writes + 1
    /\ UNCHANGED <<envVars, srcEnd>>
    /\ UNCHANGED serverVars
    /\ UNCHANGED clientVars

\* The source ends: with io.EOF, or fails with another error.
EndStream ==
    /\ srcEnd = "open"
    /\ srcEnd' \in {"EOF", "ErrIO"}
    /\ UNCHANGED <<envVars, wire, writes>>
    /\ UNCHANGED serverVars
    /\ UNCHANGED clientVars

ReceiveNil == Receive(NilBuf)

NextRaw ==
    \/ WriteLine
    \/ EndStream
    \/ ReceiveNil
    \/ ReceiveReusing
    \/ ReceiveResume

SpecRaw == InitRaw /\ [][NextRaw]_vars

(***************************************************************************)
(* The decoder on streams with byte-order marks, with malformed field      *)
(* lines, with comments and unknown lines, and with retry lines.           *)
(***************************************************************************)
BOM == <<BOM1, BOM2, BOM3>>

\* The mark alone (the next write goes on in its line), "\n", "data:1\n",
\* "id:z\n", "event:a\n", and the start of a line, "data:2".
BomLines ==
    { BOM,
      <<10>>,
      <<100, 97, 116, 97, 58, 49, 10>>,
      <<105, 100, 58, 122, 10>>,
      <<101, 118, 101, 110, 116, 58, 97, 10>>,
      <<100, 97, 116, 97, 58, 50>> }

\* "\n", "data:1\n", "id:z\n", and lines that start like a field and are
\* none: "e\n", "evx\n", "event\n", "datax:1\n", "r\n".
MalformedLines ==
    { <<10>>,
      <<100, 97, 116, 97, 58, 49, 10>>,
      <<105, 100, 58, 122, 10>>,
      <<101, 10>>,
      <<101, 118, 120, 10>>,
      <<101, 118, 101, 110, 116, 10>>,
      <<100, 97, 116, 97, 120, 58, 49, 10>>,
      <<114, 10>> }

\* "\n", "data:1\n", "id:z\n", and lines that start no field: ":c\n", "x\n",
\* EF "x\n", EF "\n", EF BB "\n".
UnknownLines ==
    { <<10>>,
      <<100, 97, 116, 97, 58, 49, 10>>,
      <<105, 100, 58, 122, 10>>,
      <<58, 99, 10>>,
      <<120, 10>>,
      <<BOM1, 120, 10>>,
      <<BOM1, 10>>,
      <<BOM1, BOM2, 10>> }

\* The lines of every stream with retry lines: "\n", "data:1\n",
\* "retry:7\n".
RetryBase ==
    { <<10>>,
      <<100, 97, 116, 97, 58, 49, 10>>,
      <<114, 101, 116, 114, 121, 58, 55, 10>> }

\* A stream has one more kind of retry line: "retry: -3\n", "retry:x\n",
\* "retry:3000000000\n" (past 32 bits) and "retry:99999999999999999999x\n"
\* (past 64 bits before the byte that is no digit).
RetryExtra ==
    { <<114, 101, 116, 114, 121, 58, 32, 45, 51, 10>>,
      <<114, 101, 116, 114, 121, 58, 120, 10>>,
      <<114, 101, 116, 114, 121, 58, 51, 48, 48, 48, 48, 48, 48, 48, 48, 48, 10>>,
      <<114, 101, 116, 114, 121, 58, 57, 57, 57, 57, 57, 57, 57, 57, 57, 57, 57, 57, 57,
        57, 57, 57, 57, 57, 57, 57, 120, 10>> }

RetryLines == {RetryBase \cup {l} : l \in RetryExtra}

InitLines(ls) ==
    /\ rec = ZeroEvent
    /\ flusher = TRUE
    /\ brSize = DefaultBufSize
    /\ lineSet \in ls
    /\ InitConns

InitBom == InitLines({BomLines})
InitMalformed == InitLines({MalformedLines})
InitUnknown == InitLines({UnknownLines})
InitRetry == InitLines(RetryLines)

SpecBom == InitBom /\ [][NextRaw]_vars
SpecMalformed == InitMalformed /\ [][NextRaw]_vars
SpecUnknown == InitUnknown /\ [][NextRaw]_vars
SpecRetry == InitRetry /\ [][NextRaw]_vars

\* The lines of a stream with id lines of several values: "\n", "data:1\n",
\* "id:z\n", "id:y\n" and, with the empty value, "id:\n".
IdLines ==
    { <<10>>,
      <<100, 97, 116, 97, 58, 49, 10>>,
      <<105, 100, 58, 122, 10>>,
      <<105, 100, 58, 121, 10>>,
      <<105, 100, 58, 10>> }

InitId == InitLines({IdLines})

SpecId == InitId /\ [][NextRaw]_vars

(***************************************************************************)
(* The decoder on long data lines, read through a bufio.Reader whose       *)
(* buffer is shorter than the line (it comes in pieces) or holds it.       *)
(***************************************************************************)
\* FillerLen bytes "a".
Filler == Run(FillerLen)

\* "data:" and a filler, a filler, a filler and "\n", "\n", "data:1\n".
BigLines ==
    { BCat(StrDataNoSpace, Filler),
      Filler,
      BCat(Filler, <<LF>>),
      <<LF>>,
      <<100, 97, 116, 97, 58, 49, 10>> }

InitBig ==
    /\ rec = ZeroEvent
    /\ flusher = TRUE
    /\ brSize \in {PieceBufSize, BigBufSize}
    /\ lineSet = BigLines
    /\ InitConns

SpecBig == InitBig /\ [][NextRaw]_vars

(***************************************************************************)
(* Round trips: the server has sent, the stream has ended and the client   *)
(* has called Receive until it returned io.EOF.                            *)
(***************************************************************************)
Drained == srcEnd = "EOF" /\ ret.err = "EOF"

\* The stream holds one Send of the record under test and nothing else.
SentOnlyRec == sent = <<rec>> /\ sends = 1

\* Equal in all four fields, an absent Data apart from an empty one.
SameRecord(e1, e2) == Eq(e1, e2) /\ e1.DataNil = e2.DataNil

\* The number of line feeds a payload ends with.
RECURSIVE TrailingLFs(_)
TrailingLFs(d) ==
    IF Len(d) > 0 /\ d[Len(d)] = LF THEN 1 + TrailingLFs(SubSeq(d, 1, Len(d) - 1)) ELSE 0

HasInternalLF(d) == \E i \in 1..(Len(d) - 1) : d[i] = LF

EmptyDataEvent == MkEvent(<<>>, <<>>, FALSE, <<>>, IntZero)

\* C1: every non-zero record sent comes back from Receive as exactly one
\* record, equal to it in Event, Data, ID and Retry, with an absent Data
\* told apart from an empty one.
RoundTripAnyRecord ==
    (SentOnlyRec /\ ~IsZero(rec) /\ Drained)
        => (Len(received) = 1 /\ SameRecord(received[1], rec))

\* C2: a payload that ends in a line feed comes back with as many trailing
\* line feeds as it was sent with.
TrailingNewlinePreserved ==
    (SentOnlyRec /\ ~rec.DataNil /\ TrailingLFs(rec.Data) > 0 /\ Drained)
        => (Len(received) = 1 /\ TrailingLFs(received[1].Data) = TrailingLFs(rec.Data))

\* C3: a payload with internal line feeds comes back byte for byte.
MultiLineJoinExact ==
    (SentOnlyRec /\ ~rec.DataNil /\ HasInternalLF(rec.Data) /\ Drained)
        => (Len(received) = 1 /\ received[1].Data = rec.Data)

\* C4: Event{Data: []byte{}} comes back as one record with present, empty
\* Data, and the zero record comes back as no record.
EmptyDataIsARealEvent ==
    /\ (SentOnlyRec /\ rec = EmptyDataEvent /\ Drained)
           => (Len(received) = 1 /\ received[1].Data = <<>> /\ ~received[1].DataNil)
    /\ (SentOnlyRec /\ rec = ZeroEvent /\ Drained) => received = <<>>

\* The events of a sequence that are not the zero event.
RECURSIVE NonZero(_)
NonZero(es) ==
    IF es = <<>> THEN <<>>
    ELSE IF IsZero(Head(es)) THEN NonZero(Tail(es))
    ELSE <<Head(es)>> \o NonZero(Tail(es))

RECURSIVE SendBytesAll(_)
SendBytesAll(es) == IF es = <<>> THEN <<>> ELSE SendBytes(Head(es)) \o SendBytesAll(Tail(es))

\* C5: the keepalives of the zero records sent, wherever they stand among
\* the messages, add and remove no record: the client receives the records,
\* and ends with the LastEventID, that the same messages give without the
\* keepalives.
KeepaliveIdempotence ==
    Drained =>
        \E plain \in {testClientConnConsumption(SendBytesAll(NonZero(sent)))} :
            /\ received = plain.events
            /\ LastEventID = plain.lastID

\* C5's case: a keepalive before and a keepalive after the one record
\* received.
KeepaliveIdempotenceWitness ==
    /\ Drained
    /\ Len(sent) = 3
    /\ IsZero(sent[1]) /\ ~IsZero(sent[2]) /\ IsZero(sent[3])
    /\ Len(received) = 1

(***************************************************************************)
(* The event stream read line by line, as the wire grammar defines it:     *)
(* a line ends at a line feed, a field line is a name, a colon, one        *)
(* optional space and the value, and a blank line ends a group.  A group   *)
(* with at least one data line is a record, made of the fields of its own  *)
(* lines; any other group is dropped with its fields.                      *)
(***************************************************************************)
FieldData == <<100, 97, 116, 97>>
FieldEvent == <<101, 118, 101, 110, 116>>
FieldId == <<105, 100>>
FieldRetry == <<114, 101, 116, 114, 121>>

IsField(l, name) ==
    /\ BLen(l) > Len(name)
    /\ BEq(BSub(l, 1, Len(name)), name)
    /\ BAt(l, Len(name) + 1) = COLON

FieldValue(l, name) ==
    LET v == Drop(l, Len(name) + 1)
    IN  IF BLen(v) > 0 /\ BAt(v, 1) = SP THEN BSub(v, 2, BLen(v)) ELSE v

NoGroup ==
    [Event |-> <<>>, Data |-> <<>>, ID |-> <<>>, Retry |-> IntZero, hasData |-> FALSE]

\* The group g after one more line of it.
GroupWith(g, l) ==
    IF IsField(l, FieldData)
    THEN [g EXCEPT !.Data = IF g.hasData THEN BCat(BCat(@, <<LF>>), FieldValue(l, FieldData))
                             ELSE FieldValue(l, FieldData),
                   !.hasData = TRUE]
    ELSE IF IsField(l, FieldEvent) THEN [g EXCEPT !.Event = FieldValue(l, FieldEvent)]
    ELSE IF IsField(l, FieldId) THEN [g EXCEPT !.ID = FieldValue(l, FieldId)]
    ELSE IF IsField(l, FieldRetry)
    THEN LET retry == ParseInt(FieldValue(l, FieldRetry))
         IN  IF retry.ok THEN [g EXCEPT !.Retry = retry.val] ELSE g
    ELSE g

\* The stream s from index from on, in group g, with the records out and
\* the last id line's value lastID so far.  A record carries the index of
\* the line feed of its blank line.
RECURSIVE GrammarFrom(_, _, _, _, _)
GrammarFrom(s, from, g, out, lastID) ==
    LET j == IndexByteFrom(s, LF, from)
        l == BSub(s, from, j - 1)
    IN  IF j = 0 THEN [records |-> out, lastID |-> lastID, pending |-> g]
        ELSE IF BLen(l) = 0
        THEN GrammarFrom(s, j + 1, NoGroup,
                         IF g.hasData
                         THEN Append(out, [Event |-> g.Event, Data |-> g.Data, ID |-> g.ID,
                                           Retry |-> g.Retry, end |-> j])
                         ELSE out,
                         lastID)
        ELSE GrammarFrom(s, j + 1, GroupWith(g, l), out,
                         IF IsField(l, FieldId) THEN FieldValue(l, FieldId) ELSE lastID)

Grammar(s) == GrammarFrom(s, 1, NoGroup, <<>>, <<>>)

\* The bytes the client has consumed, and those it has not.
Consumed == BSub(wire, 1, rpos - 1)
Unconsumed == BSub(wire, rpos, BLen(wire))

\* Where the call in progress started, or the next call will: the position
\* of the reader and the LastEventID there, the bytes before and from there.
StartPos == IF call.active THEN call.pos ELSE rpos
StartID == IF call.active THEN call.lastID ELSE LastEventID
Before == BSub(wire, 1, StartPos - 1)
Ahead == BSub(wire, StartPos, BLen(wire))

\* What Receive(nil) from there makes of the stream as it is.
NextReceive == ReceiveFrom(wire, srcEnd, StartPos, NilBuf, StartID, brSize)

\* The errors a source ends with.
IsError(err) == err \in {"EOF", "ErrIO"}

\* C6: the Event, ID and Retry of every record received are those of the
\* field lines of the record's own group.
FieldsFromOwnGroup ==
    \E g \in {Grammar(Consumed)} :
        \A k \in 1..Len(received) :
            /\ k <= Len(g.records)
            /\ received[k].Event = g.records[k].Event
            /\ received[k].ID = g.records[k].ID
            /\ received[k].Retry = g.records[k].Retry

\* C7: LastEventID is the value of the last id line among the lines the
\* client has consumed, empty when there is none.
LastEventIDIsLastIdLine == LastEventID = Grammar(Consumed).lastID

\* C7's case: the stream starts with the line "id:z" in a group without
\* data that was skipped, a later id line with another value stands in a
\* group the end of the stream cut short, and LastEventID is the later
\* value, "y".
LastEventIDWitness ==
    /\ LastEventID = <<121>>
    /\ Len(wire) >= 6
    /\ SubSeq(wire, 1, 6) = <<105, 100, 58, 122, 10, 10>>
    /\ IsError(ret.err)
    /\ received = <<>>
    /\ Grammar(wire).pending.ID = LastEventID

\* C8: Receive returns a record only at the blank line of a group with a
\* data line, with a nil and with a reused buffer, and the record's Data is
\* present; the records received are no more than such groups.
RecordOnlyAtDataGroup ==
    \E g \in {Grammar(Consumed)} :
        /\ Len(received) <= Len(g.records)
        /\ (ret.err = "nil" /\ ~call.active) =>
               /\ ~ret.ev.DataNil
               /\ \E k \in 1..Len(g.records) : g.records[k].end = rpos - 1

\* C8's case: a group of field lines without data was ended by its blank
\* line and skipped, and a later group with data was returned as a record.
RecordOnlyAtDataGroupWitness ==
    /\ ret.err = "nil"
    /\ ~call.active
    /\ Len(received) = 1
    /\ \E i \in 3..(rpos - 2) :
           /\ wire[i] = LF /\ wire[i - 1] = LF
           /\ wire[1] \in {ChE, ChI}
           /\ Grammar(SubSeq(wire, 1, i)).records = <<>>

\* C9: the records received are the groups with data of the bytes consumed,
\* one each and in order; a Receive returns the next such group as soon as
\* its blank line is on the stream, consuming up to that line feed and no
\* further, and waits while the stream is open and holds no such group;
\* once the stream has ended with io.EOF and no such group is left,
\* Receive returns io.EOF.
InOrderAndPrompt ==
    \E g \in {Grammar(Before)}, u \in {Grammar(Ahead)}, r \in {NextReceive} :
        /\ Len(received) = Len(g.records)
        /\ \A k \in 1..Len(received) : received[k].Data = g.records[k].Data
        /\ (Len(u.records) > 0 /\ (IsError(ret.err) => StartPos <= Len(wire))) =>
               /\ r.st = "ret" /\ r.err = "nil"
               /\ r.pos = StartPos + u.records[1].end
               /\ r.ev.Data = u.records[1].Data
        /\ (Len(u.records) = 0 /\ srcEnd = "open") => r.st = "block"
        /\ (Len(u.records) = 0 /\ srcEnd = "EOF") => (r.st = "ret" /\ r.err = "EOF")

\* C9's case: two records received in stream order while the stream is
\* still open, the second with nothing after its blank line.
InOrderAndPromptWitness ==
    /\ srcEnd = "open"
    /\ Len(received) = 2
    /\ received[1].Data # received[2].Data
    /\ rpos = Len(wire) + 1
    /\ ret.err = "nil"

\* C10 as stated: a Receive that returns the stream's failure returns no
\* field of the unfinished group.
NothingReturnedWithError ==
    IsError(ret.err) =>
        (ret.ev.Event = <<>> /\ ret.ev.Data = <<>> /\ ret.ev.ID = <<>> /\ ret.ev.Retry = IntZero)

\* C10 as amended: a Receive that fails returns the source's own error,
\* with everything on the stream consumed; the records received are those
\* of the finished groups alone; and a later Receive, with a nil or with the
\* returned buffer, returns that error again with an event holding nothing.
FailurePropagatedPartialDropped ==
    IsError(ret.err) =>
        /\ ret.err = srcEnd
        /\ rpos = Len(wire) + 1
        /\ Len(received) = Len(Grammar(wire).records)
        /\ \A buf \in {NilBuf, [b |-> ret.ev.Data, nil |-> ret.ev.DataNil]} :
               \E r \in {ReceiveFrom(wire, srcEnd, StartPos, buf, StartID, brSize)} :
                   /\ r.st = "ret" /\ r.err = srcEnd
                   /\ r.ev.Event = <<>> /\ r.ev.Data = <<>>
                   /\ r.ev.ID = <<>> /\ r.ev.Retry = IntZero

\* C10's case: the stream failed in a group that had set fields and data.
FailurePropagatedWitness ==
    /\ ret.err = "ErrIO"
    /\ ret.ev.ID # <<>>
    /\ ret.ev.Data # <<>>
    /\ Len(received) = 1

(***************************************************************************)
(* The size limit.                                                         *)
(***************************************************************************)
\* The reader stands at the start of a line.
AtLineStart == StartPos = 1 \/ (StartPos - 1 <= BLen(wire) /\ BAt(wire, StartPos - 1) = LF)

\* From index from on, a complete data line with a value longer than
\* MaxEventDataSize comes before the blank line that ends a group with data.
RECURSIVE OversizedBeforeRecord(_, _, _)
OversizedBeforeRecord(s, from, hasData) ==
    LET j == IndexByteFrom(s, LF, from)
        l == BSub(s, from, j - 1)
    IN  IF j = 0 THEN FALSE
        ELSE IF BLen(l) = 0
        THEN IF hasData THEN FALSE ELSE OversizedBeforeRecord(s, j + 1, FALSE)
        ELSE IF IsField(l, FieldData)
        THEN IF BLen(FieldValue(l, FieldData)) > MaxEventDataSize THEN TRUE
             ELSE OversizedBeforeRecord(s, j + 1, TRUE)
        ELSE OversizedBeforeRecord(s, j + 1, hasData)

\* C11: when the next group holds a data line whose value is longer than
\* MaxEventDataSize, Receive returns errEventDataTooBig, which is neither
\* io.EOF nor the source's I/O error, with a reader that delivers the line
\* in pieces and with one that delivers it at once.
OversizedDataLineFails ==
    (AtLineStart /\ OversizedBeforeRecord(wire, StartPos, FALSE)) =>
        \E r \in {NextReceive} :
            /\ r.st = "ret"
            /\ r.err = "TooBig"
            /\ ~IsError(r.err)

\* C11's case: Receive has failed on an oversized line that the reader
\* delivered in one piece.
OversizedDataLineWitness ==
    /\ ret.err = "TooBig"
    /\ brSize = BigBufSize
    /\ OversizedBeforeRecord(wire, 1, FALSE)
    /\ received = <<>>
    /\ rpos = BLen(wire) + 1

\* C19: every group whose data, with the line feed that follows its last
\* line, is no longer than MaxEventDataSize is returned as a record,
\* however the reader splits its lines.
WithinLimitIsReturned ==
    \E u \in {Grammar(Ahead)} :
        (AtLineStart /\ Len(u.records) > 0 /\ BLen(u.records[1].Data) + 1 <= MaxEventDataSize) =>
            \E r \in {NextReceive} :
                /\ r.st = "ret"
                /\ r.err = "nil"
                /\ BEq(r.ev.Data, u.records[1].Data)

(***************************************************************************)
(* The encoder's framing, flush and write failures.                        *)
(***************************************************************************)
\* The segments of a payload that line feeds delimit: one more than it has
\* line feeds.
RECURSIVE Segments(_)
Segments(d) ==
    LET j == IndexByteFrom(d, LF, 1)
    IN  IF j = 0 THEN <<d>>
        ELSE <<SubSeq(d, 1, j - 1)>> \o Segments(Drop(d, j))

\* The data lines of a payload: "data: <segment>" for each segment, the empty
\* segment after a final line feed as "data:" without the space.
SegmentLines(segs, endsInLF) ==
    [i \in 1..Len(segs) |->
        IF i = Len(segs) /\ endsInLF THEN StrDataNoSpace \o <<LF>>
        ELSE StrData \o segs[i] \o <<LF>>]

\* The message of a record as the wire format lays it out.
Framed(e) ==
    IF IsZero(e) THEN <<COLON, LF, LF>>
    ELSE (IF e.Event # <<>> THEN StrEvent \o e.Event \o <<LF>> ELSE <<>>)
         \o (IF e.ID # <<>> THEN StrId \o e.ID \o <<LF>> ELSE <<>>)
         \o (IF e.Retry # IntZero THEN StrRetry \o FormatInt(e.Retry) \o <<LF>> ELSE <<>>)
         \o (IF e.DataNil THEN <<>>
             ELSE Flatten(SegmentLines(Segments(e.Data),
                                       Len(e.Data) > 0 /\ e.Data[Len(e.Data)] = LF)))
         \o <<LF>>

\* C12: a Send that succeeds writes the message of its record: the event,
\* id and retry lines of the fields that are set, one data line for each
\* segment of the data, a blank line, and nothing else; ":" and a blank
\* line for the zero record.
SendWritesTheFramedMessage ==
    (sends = 1 /\ sendRet = "nil") => wire = Framed(sent[1])

\* C13: every Send, whether it returned nil or a write's error, ended with
\* one Flush of the sink, after all of its writes.  (A ResponseWriter that
\* is no http.Flusher has no Flush to call.)
FlushAfterEverySend ==
    /\ flushes = (IF flusher THEN sends ELSE 0)
    /\ (sendRet # "none" /\ flusher) =>
           /\ Len(lastOps) >= 2
           /\ lastOps[Len(lastOps)].op = "Flush"
           /\ \A i \in 1..(Len(lastOps) - 1) : lastOps[i].op = "Write"
    /\ (sendRet # "none" /\ ~flusher) => \A i \in 1..Len(lastOps) : lastOps[i].op = "Write"

\* C13's case: a Send failed at its third write or later and flushed.
FlushAfterFailedSendWitness ==
    /\ sendRet = "err"
    /\ flusher
    /\ Len(lastOps) >= 4
    /\ lastOps[Len(lastOps)].op = "Flush"
    /\ lastOps[Len(lastOps) - 1].failed

\* C14: a Send that returned an error made no write after the one that
\* failed; its writes before that one are the first writes of the message,
\* in full; and what it put on the sink, a proper prefix of the message,
\* stays there after everything sent before.
WriteFailureAborts ==
    sendRet = "err" =>
        \E e \in {rec, ZeroEvent} :
            \E k \in 1..Len(SendWrites(e)) :
                /\ k <= Len(lastOps)
                /\ lastOps[k].failed
                /\ lastOps[k].b = SendWrites(e)[k]
                /\ \A i \in 1..(k - 1) :
                       lastOps[i] = WriteOp(SendWrites(e)[i], Len(SendWrites(e)[i]), FALSE)
                /\ \A i \in (k + 1)..Len(lastOps) : lastOps[i].op # "Write"
                /\ wire = SendBytesAll(sent) \o OpsBytes(lastOps)
                /\ Len(OpsBytes(lastOps)) < Len(SendBytes(e))
                /\ OpsBytes(lastOps) = SubSeq(SendBytes(e), 1, Len(OpsBytes(lastOps)))

\* C14's case: a Send failed in the middle of a write, after an earlier
\* Send had succeeded.
WriteFailureAbortsWitness ==
    /\ sendRet = "err"
    /\ Len(sent) >= 1
    /\ \E k \in 2..Len(lastOps) : lastOps[k].failed /\ lastOps[k].n > 0

(***************************************************************************)
(* Byte-order marks, the reused buffer, malformed and unknown lines, retry.*)
(***************************************************************************)
\* The stream without the byte-order marks that stand at the start of a
\* line.
RECURSIVE StripBomFrom(_, _, _)
StripBomFrom(s, i, atStart) ==
    IF i > Len(s) THEN <<>>
    ELSE IF atStart /\ i + 2 <= Len(s) /\ SubSeq(s, i, i + 2) = BOM
    THEN StripBomFrom(s, i + 3, TRUE)
    ELSE <<s[i]>> \o StripBomFrom(s, i + 1, s[i] = LF)

StripBom(s) == StripBomFrom(s, 1, TRUE)

\* The events of two sequences are equal field by field, Data by content.
SameEvents(es1, es2) ==
    /\ Len(es1) = Len(es2)
    /\ \A k \in 1..Len(es1) : Eq(es1[k], es2[k])

\* C15: once the stream has ended and Receive has returned its error, the
\* records received, LastEventID and the error are those of the same stream
\* without the byte-order marks at its line starts.
BomDiscardedAtLineStart ==
    IsError(ret.err) =>
        \E plain \in {ConsumeFrom(StripBom(wire), srcEnd, 1, <<>>, <<>>, brSize)} :
            /\ SameEvents(received, plain.events)
            /\ LastEventID = plain.lastID
            /\ ret.err = plain.err

\* C15's case: a record was received from a group whose data line follows
\* a byte-order mark that is not at the start of the stream.
BomDiscardedWitness ==
    /\ IsError(ret.err)
    /\ Len(received) = 1
    /\ \E i \in 2..(Len(wire) - 3) :
           /\ wire[i - 1] = LF
           /\ SubSeq(wire, i, i + 2) = BOM
           /\ wire[i + 3] = ChD

\* Buffers a caller may pass: that of the last event returned, an empty
\* one, and one that holds bytes of its own.
CallerBufs ==
    { [b |-> ret.ev.Data, nil |-> ret.ev.DataNil],
      [b |-> <<>>, nil |-> FALSE],
      [b |-> <<120, 10, 121>>, nil |-> FALSE] }

\* C16: from every position of the stream, Receive with a caller's buffer,
\* whatever it holds, returns what Receive(nil) returns: the same event,
\* Data by content, the same error, and it waits when Receive(nil) waits.
ReusedBufferSameAsNil ==
    \E n \in {NextReceive} :
        \A buf \in CallerBufs :
            \E a \in {ReceiveFrom(wire, srcEnd, StartPos, buf, StartID, brSize)} :
                /\ a.st = n.st
                /\ a.err = n.err
                /\ a.pos = n.pos
                /\ a.lastID = n.lastID
                /\ Eq(a.ev, n.ev)

\* C16's case: a record with data was received, and after it one with
\* empty data.
ReusedBufferWitness ==
    /\ Len(received) = 2
    /\ received[1].Data # <<>>
    /\ received[2].Data = <<>>
    /\ ret.err = "nil"

\* C17: once the stream has ended and Receive has returned its error, the
\* records received and LastEventID are those of the well-formed lines: a
\* line that starts like a field and is none takes nothing else with it.
MalformedLineAbortsOnlyItself ==
    IsError(ret.err) =>
        \E g \in {Grammar(wire)} :
            /\ Len(received) = Len(g.records)
            /\ \A k \in 1..Len(received) :
                   k <= Len(g.records) => received[k].Data = g.records[k].Data
            /\ LastEventID = g.lastID

\* A complete line that starts with a byte that begins no field.
IsUnknownLine(l) == Len(l) > 0 /\ l[1] \notin {ChE, ChD, ChI, ChR}

\* The stream without its complete unknown lines.
RECURSIVE StripUnknownFrom(_, _)
StripUnknownFrom(s, from) ==
    LET j == IndexByteFrom(s, LF, from)
        l == SubSeq(s, from, j - 1)
    IN  IF j = 0 THEN SubSeq(s, from, Len(s))
        ELSE IF IsUnknownLine(l) THEN StripUnknownFrom(s, j + 1)
        ELSE l \o <<LF>> \o StripUnknownFrom(s, j + 1)

StripUnknown(s) == StripUnknownFrom(s, 1)

\* C18: once the stream has ended and Receive has returned its error, the
\* records received, LastEventID and the error are those of the same stream
\* without its comment lines and unknown lines.
UnknownLineDiscardedAlone ==
    IsError(ret.err) =>
        \E plain \in {ConsumeFrom(StripUnknown(wire), srcEnd, 1, <<>>, <<>>, brSize)} :
            /\ SameEvents(received, plain.events)
            /\ LastEventID = plain.lastID
            /\ ret.err = plain.err

\* The retry value after the complete lines of s from index from on: that
\* of the last retry line whose value is a base-10 integer, else before.
RECURSIVE LastRetryFrom(_, _, _)
LastRetryFrom(s, from, before) ==
    LET j == IndexByteFrom(s, LF, from)
        l == SubSeq(s, from, j - 1)
        retry == ParseInt(FieldValue(l, FieldRetry))
    IN  IF j = 0 THEN before
        ELSE IF IsField(l, FieldRetry) /\ retry.ok THEN LastRetryFrom(s, j + 1, retry.val)
        ELSE LastRetryFrom(s, j + 1, before)

\* C20: what Receive returns from any position carries the value of the
\* last retry line it read whose value parses, zero when it read none; a
\* retry line whose value does not parse changes nothing, is no error, and
\* the group's data is returned all the same.
RetryParsedOrIgnored ==
    \E r \in {NextReceive}, u \in {Grammar(Ahead)} :
        /\ r.st = "ret" =>
               /\ r.ev.Retry = LastRetryFrom(SubSeq(wire, StartPos, r.pos - 1), 1, IntZero)
               /\ r.err \in {"nil", srcEnd}
        /\ Len(u.records) > 0 =>
               /\ r.st = "ret" /\ r.err = "nil"
               /\ r.ev.Data = u.records[1].Data
               /\ r.pos = StartPos + u.records[1].end

\* C20's case: a record was received whose group holds a retry line that
\* parses and, after it, one that does not.
RetryIgnoredWitness ==
    /\ ret.err = "nil"
    /\ Len(received) = 1
    /\ received[1].Retry = IntOf(7)
    /\ SubSeq(wire, 1, 16) = <<114, 101, 116, 114, 121, 58, 55, 10,
                               114, 101, 116, 114, 121, 58, 120, 10>>

=============================================================================
